---- MODULE Spec2Model ----
(***************************************************************************)
(* A model of pdf_tools.py (class PDFTools): the parallel download batch   *)
(* with per-URL retry, the greedy balanced merge, and the two-pass         *)
(* size-bounded compression.  Each stage has its own specification         *)
(* (SpecMerge, SpecDownload, SpecCompress); the variables of the stages    *)
(* that a specification does not run stay at their idle values.            *)
(***************************************************************************)
EXTENDS Integers, Sequences, FiniteSets, TLC

\* ------------------------------------------------------------------ bounds
MaxFiles == 3       \* files in the directory handed to merge_pdfs
MaxSize == 3        \* largest byte size of a file in that directory
MaxPages == 1       \* largest page count a readable file reports
MaxGroups == 3      \* largest requested num_output_files
MaxUrls == 2        \* links on the page
MaxWorkers == 2     \* largest max_workers
MaxRetries == 3     \* largest num_retries of a direct download_pdf call
MaxDelta == 2       \* file sizes lie within this many MB of the 100MB limit
MaxInputs == 2      \* entries of the directory handed to compress_pdf_directory
MaxLarge == 1       \* entries of that directory that are over 100MB
MaxPre == 2         \* files the download directory of `all` held before the run
MaxCpus == 2        \* largest os.cpu_count()

VARIABLES
    \* ---- merge_pdfs
    mpc,                \* position in merge_pdfs
    disk,               \* path -> [size, pages, readable] of the files in pdf_dir
    all_files,          \* the listed paths (paths are 1..n in string order)
    futures,            \* analysis futures not yet yielded by as_completed
    valid_pdfs,         \* list of <<file_size, num_pages, pdf_path>>
    target_groups,      \* the num_output_files argument
    num_output_files,   \* min(argument, len(valid_pdfs))
    buckets,            \* list of lists of paths
    bucket_sizes,       \* list of running totals
    next_item,          \* index into valid_pdfs of the assignment loop
    next_bucket,        \* index into buckets of the consolidation loop
    merged_out,         \* bucket index -> what merge_pdf_bucket did for it
    successfully_merged,
    merge_result,       \* "none", "None" (early return) or "output_dir"
    \* ---- download_pdfs_from_url / download_pdf
    dpc,                \* position in download_pdfs_from_url, or "direct"
    page,               \* the distinct PDF links found on the page
    behaviour,          \* url -> how the remote end answers
    download_dir,
    max_workers,
    num_retries,
    pdf_urls,           \* the submitted URLs
    task,               \* url -> state of its download_pdf call
    fs,                 \* local path -> [state, by] of the file written there
    collected,          \* futures already yielded by as_completed
    successful_downloads,
    failed_downloads,
    download_result,    \* "none", "None" or "download_dir"
    \* ---- super_compress_pdf
    spc,                \* position in super_compress_pdf
    output_file,
    more_aggressive_output,
    original_size,      \* sizes are in MB
    baseline_size,      \* the size measured at line 325
    compressed_size,
    more_compressed_size,
    cfs,                \* output path -> [size, kind] of the file there
    super_result,       \* <<under 100MB, final size>> once returned
    \* ---- compress_pdf_directory / compress_pdf
    cpc,                \* position in compress_pdf_directory
    input_dir_exists,
    input_files,        \* entry name -> size in MB of the files in input_dir
    out_dir,            \* the output_dir argument
    compress_workers,   \* the max_workers argument (0: not given), then the pool size
    pdf_files,          \* the listed names
    large_pdfs,         \* the names found over 100MB
    large_left,         \* the part of large_pdfs the loop at line 419 has yet to take
    pdf_path,           \* the item of that loop
    regular_pdfs,
    ctask,              \* regular name -> state of its compress_pdf call
    ccollected,         \* futures already yielded by as_completed
    total_original_size,
    total_compressed_size,
    successfully_compressed,
    handled,            \* listed name -> calls made for it and their outcome
    compress_result,    \* "none", "None" or "output_dir"
    \* ---- main, command `all`
    ppc,                \* position in the `all` branch of main
    merged_dir_state,   \* Temp_Merged_PDFs: "none", "present" or "removed"
    merged_dir_files    \* the names of the files merge_pdfs wrote there

mergeVars == <<mpc, disk, all_files, futures, valid_pdfs, target_groups,
               num_output_files, buckets, bucket_sizes, next_item,
               next_bucket, merged_out, successfully_merged, merge_result>>

downloadVars == <<dpc, page, behaviour, download_dir, max_workers, num_retries,
                  pdf_urls, task, fs, collected, successful_downloads,
                  failed_downloads, download_result>>

compressVars == <<spc, output_file, more_aggressive_output, original_size,
                  baseline_size, compressed_size, more_compressed_size, cfs,
                  super_result>>

dirVars == <<cpc, input_dir_exists, input_files, out_dir, compress_workers,
             pdf_files, large_pdfs, large_left, pdf_path, regular_pdfs, ctask,
             ccollected, total_original_size, total_compressed_size,
             successfully_compressed, handled, compress_result>>

mainVars == <<ppc, merged_dir_state, merged_dir_files>>

vars == <<mergeVars, downloadVars, compressVars, dirVars, mainVars>>

\* ------------------------------------------------------------ list helpers
Min(a, b) == IF a < b THEN a ELSE b

RECURSIVE SumSeq(_)
SumSeq(s) == IF s = <<>> THEN 0 ELSE s[1] + SumSeq(Tail(s))

RECURSIVE SumOver(_, _)
SumOver(S, f) ==
    IF S = {} THEN 0
    ELSE LET x == CHOOSE y \in S : TRUE IN f[x] + SumOver(S \ {x}, f)

Range(s) == {s[i] : i \in 1..Len(s)}

MinOfList(s) == CHOOSE m \in Range(s) : \A x \in Range(s) : m <= x

\* list.index(v): the first position holding v
ListIndex(s, v) == CHOOSE i \in 1..Len(s) : s[i] = v /\ \A j \in 1..(i-1) : s[j] # v

\* ================================================================ MERGE ==
\* get_pdf_size_info: (size, pages, path), or (0, 0, path) when the probe fails
GetPdfSizeInfo(f) ==
    IF disk[f].readable THEN <<disk[f].size, disk[f].pages, f>>
    ELSE <<0, 0, f>>

\* a validity test that lets the (0, 0, path) of a failed probe through
IsValidNonNegative(t) == t[1] >= 0

\* line 214: valid PDFs have size > 0
IsValid(t) == t[1] > 0

\* a comparison that looks at the size only, as sort(key=size) would
TupleGreaterBySize(a, b) == a[1] > b[1]

\* Python's tuple comparison a > b on (size, pages, path)
TupleGreater(a, b) ==
    \/ a[1] > b[1]
    \/ a[1] = b[1] /\ a[2] > b[2]
    \/ a[1] = b[1] /\ a[2] = b[2] /\ a[3] > b[3]

\* place t after the elements of the descending list s that are not smaller
InsertDesc(t, s) ==
    LET k == Cardinality({i \in 1..Len(s) : ~TupleGreater(t, s[i])})
    IN SubSeq(s, 1, k) \o <<t>> \o SubSeq(s, k + 1, Len(s))

\* a sort that leaves the list in completion order
SortReverseSkipped(s) == s

\* list.sort(reverse=True): descending, equal elements keep their order
RECURSIVE SortReverse(_)
SortReverse(s) ==
    IF s = <<>> THEN <<>>
    ELSE InsertDesc(s[Len(s)], SortReverse(SubSeq(s, 1, Len(s) - 1)))

\* a bucket count that ignores the number of valid files
NumOutputFilesUncapped(requested, valid) == requested

\* line 227
NumOutputFiles(requested, valid) == Min(requested, Len(valid))

MaxOfList(s) == CHOOSE m \in Range(s) : \A x \in Range(s) : m >= x

\* a bucket choice that takes the fullest bucket
MinIdxFullest(sizes) == ListIndex(sizes, MaxOfList(sizes))

\* a bucket choice that takes the last of the lightest buckets
MinIdxLastTie(sizes) ==
    CHOOSE i \in 1..Len(sizes) :
        /\ sizes[i] = MinOfList(sizes)
        /\ \A j \in (i + 1)..Len(sizes) : sizes[j] # sizes[i]

\* line 241: bucket_sizes.index(min(bucket_sizes))
MinIdx(sizes) == ListIndex(sizes, MinOfList(sizes))

FileStates ==
    [size : 0..MaxSize, pages : {0}, readable : {FALSE}]
    \cup [size : 1..MaxSize, pages : 0..MaxPages, readable : {TRUE}]

\* the example directory of the specification: five readable documents
ScenarioDisk ==
    [f \in 1..5 |-> [size |-> 60 - 10 * f, pages |-> 1, readable |-> TRUE]]

MergeIdle ==
    /\ mpc = "idle"
    /\ disk = <<>>
    /\ all_files = {}
    /\ futures = {}
    /\ valid_pdfs = <<>>
    /\ target_groups = 0
    /\ num_output_files = 0
    /\ buckets = <<>>
    /\ bucket_sizes = <<>>
    /\ next_item = 0
    /\ next_bucket = 0
    /\ merged_out = <<>>
    /\ successfully_merged = 0
    /\ merge_result = "none"

DownloadIdle ==
    /\ dpc = "idle"
    /\ page = {}
    /\ behaviour = <<>>
    /\ download_dir = <<>>
    /\ max_workers = 0
    /\ num_retries = 0
    /\ pdf_urls = {}
    /\ task = <<>>
    /\ fs = <<>>
    /\ collected = {}
    /\ successful_downloads = 0
    /\ failed_downloads = 0
    /\ download_result = "none"

\* a bucket merge_pdf_bucket was not called for
NotMerged == [merger |-> <<>>, raised |-> {}, file |-> "none", ok |-> FALSE]

NoFile == [size |-> 0, kind |-> "none"]

CompressIdle ==
    /\ spc = "idle"
    /\ output_file = <<>>
    /\ more_aggressive_output = <<>>
    /\ original_size = 0
    /\ baseline_size = 0
    /\ compressed_size = 0
    /\ more_compressed_size = 0
    /\ cfs = <<>>
    /\ super_result = <<>>

CompressDirIdle ==
    /\ cpc = "idle"
    /\ input_dir_exists = FALSE
    /\ input_files = <<>>
    /\ out_dir = <<>>
    /\ compress_workers = 0
    /\ pdf_files = {}
    /\ large_pdfs = {}
    /\ large_left = {}
    /\ pdf_path = <<>>
    /\ regular_pdfs = {}
    /\ ctask = <<>>
    /\ ccollected = {}
    /\ total_original_size = 0
    /\ total_compressed_size = 0
    /\ successfully_compressed = 0
    /\ handled = <<>>
    /\ compress_result = "none"

MainIdle ==
    /\ ppc = "idle"
    /\ merged_dir_state = "none"
    /\ merged_dir_files = {}

MergeStart(d, g) ==
    /\ DownloadIdle
    /\ CompressIdle
    /\ CompressDirIdle
    /\ MainIdle
    /\ mpc = "list"
    /\ disk = d
    /\ all_files = {}
    /\ futures = {}
    /\ valid_pdfs = <<>>
    /\ target_groups = g
    /\ num_output_files = 0
    /\ buckets = <<>>
    /\ bucket_sizes = <<>>
    /\ next_item = 0
    /\ next_bucket = 0
    /\ merged_out = <<>>
    /\ successfully_merged = 0
    /\ merge_result = "none"

InitMerge ==
    \/ \E n \in 0..MaxFiles : \E d \in [1..n -> FileStates] :
         \E g \in 1..MaxGroups : MergeStart(d, g)
    \/ MergeStart(ScenarioDisk, 3)

\* lines 200-211: list the directory, return None when empty, else submit
ListFiles ==
    /\ mpc = "list"
    /\ all_files' = DOMAIN disk
    /\ IF DOMAIN disk = {}
       THEN /\ mpc' = "done"
            /\ merge_result' = "None"
            /\ futures' = {}
       ELSE /\ mpc' = "analyse"
            /\ merge_result' = merge_result
            /\ futures' = DOMAIN disk
    /\ UNCHANGED <<downloadVars, compressVars, dirVars, mainVars>>
    /\ UNCHANGED <<disk, valid_pdfs, target_groups, num_output_files, buckets,
                   bucket_sizes, next_item, next_bucket, merged_out,
                   successfully_merged>>

\* lines 212-215: as_completed yields one finished analysis, in any order
AnalysisCompleted(f) ==
    /\ mpc = "analyse"
    /\ f \in futures
    /\ futures' = futures \ {f}
    /\ valid_pdfs' = IF IsValid(GetPdfSizeInfo(f))
                     THEN Append(valid_pdfs, GetPdfSizeInfo(f))
                     ELSE valid_pdfs
    /\ UNCHANGED <<downloadVars, compressVars, dirVars, mainVars>>
    /\ UNCHANGED <<mpc, disk, all_files, target_groups, num_output_files,
                   buckets, bucket_sizes, next_item, next_bucket, merged_out,
                   successfully_merged, merge_result>>

\* lines 217-236: early return, bucket creation and the descending sort
PrepareBuckets ==
    /\ mpc = "analyse"
    /\ futures = {}
    /\ IF valid_pdfs = <<>>
       THEN /\ mpc' = "done"
            /\ merge_result' = "None"
            /\ UNCHANGED <<valid_pdfs, num_output_files, buckets, bucket_sizes,
                           next_item>>
       ELSE /\ mpc' = "assign"
            /\ merge_result' = merge_result
            /\ num_output_files' = NumOutputFiles(target_groups, valid_pdfs)
            /\ buckets' = [i \in 1..NumOutputFiles(target_groups, valid_pdfs) |-> <<>>]
            /\ bucket_sizes' = [i \in 1..NumOutputFiles(target_groups, valid_pdfs) |-> 0]
            /\ valid_pdfs' = SortReverse(valid_pdfs)
            /\ next_item' = 1
    /\ UNCHANGED <<downloadVars, compressVars, dirVars, mainVars>>
    /\ UNCHANGED <<disk, all_files, futures, target_groups, next_bucket,
                   merged_out, successfully_merged>>

\* lines 239-243: one iteration of the assignment loop
AssignItem ==
    /\ mpc = "assign"
    /\ next_item <= Len(valid_pdfs)
    /\ LET t == valid_pdfs[next_item]
           min_idx == MinIdx(bucket_sizes)
       IN /\ buckets' = [buckets EXCEPT ![min_idx] = Append(@, t[3])]
          /\ bucket_sizes' = [bucket_sizes EXCEPT ![min_idx] = @ + t[1]]
    /\ next_item' = next_item + 1
    /\ UNCHANGED <<downloadVars, compressVars, dirVars, mainVars>>
    /\ UNCHANGED <<mpc, disk, all_files, futures, valid_pdfs, target_groups,
                   num_output_files, next_bucket, merged_out,
                   successfully_merged, merge_result>>

\* line 246: the assignment loop is over, the consolidation loop starts
AssignDone ==
    /\ mpc = "assign"
    /\ next_item > Len(valid_pdfs)
    /\ mpc' = "consolidate"
    /\ next_bucket' = 1
    /\ merged_out' = [i \in 1..Len(buckets) |-> NotMerged]
    /\ UNCHANGED <<downloadVars, compressVars, dirVars, mainVars>>
    /\ UNCHANGED <<disk, all_files, futures, valid_pdfs, target_groups,
                   num_output_files, buckets, bucket_sizes, next_item,
                   successfully_merged, merge_result>>

\* the sub-list of s holding the elements that are in S, in s's order
RECURSIVE KeepIn(_, _)
KeepIn(s, S) ==
    IF s = <<>> THEN <<>>
    ELSE IF s[1] \in S THEN <<s[1]>> \o KeepIn(Tail(s), S)
    ELSE KeepIn(Tail(s), S)

\* what pdf_merger.write(output_file) can leave behind: the whole file, or,
\* when it raises, a partial file or nothing
WriteOutcomes == {"written", "partial", "none"}

\* a merge_pdf_bucket that writes and reports whatever was appended
MergePdfBucketWritesEmpty(bucket, appended, write) ==
    [merger |-> KeepIn(bucket, appended),
     raised |-> Range(bucket) \ appended,
     file   |-> write,
     ok     |-> write = "written"]

\* merge_pdf_bucket (lines 160-183): appended = the items whose append did
\* not raise, write = the outcome of pdf_merger.write. merger is the content
\* of pdf_merger, file the state of output_file, ok the value returned
MergePdfBucket(bucket, appended, write) ==
    LET merger == KeepIn(bucket, appended)
        merged_count == Len(merger)
    IN [merger |-> merger,
        raised |-> Range(bucket) \ appended,
        file   |-> IF merged_count > 0 THEN write ELSE "none",
        ok     |-> merged_count > 0 /\ write = "written"]

\* lines 248-254: one iteration of the consolidation loop
MergeBucket ==
    /\ mpc = "consolidate"
    /\ next_bucket <= Len(buckets)
    /\ IF buckets[next_bucket] = <<>>
       THEN UNCHANGED <<merged_out, successfully_merged>>
       ELSE \E appended \in SUBSET Range(buckets[next_bucket]) :
            \E write \in WriteOutcomes :
              LET out == MergePdfBucket(buckets[next_bucket], appended, write)
              IN /\ merged_out' = [merged_out EXCEPT ![next_bucket] = out]
                 /\ successfully_merged' =
                      IF out.ok THEN successfully_merged + 1
                      ELSE successfully_merged
    /\ next_bucket' = next_bucket + 1
    /\ UNCHANGED <<downloadVars, compressVars, dirVars, mainVars>>
    /\ UNCHANGED <<mpc, disk, all_files, futures, valid_pdfs, target_groups,
                   num_output_files, buckets, bucket_sizes, next_item,
                   merge_result>>

\* lines 256-260
MergeReturn ==
    /\ mpc = "consolidate"
    /\ next_bucket > Len(buckets)
    /\ mpc' = "done"
    /\ merge_result' = "output_dir"
    /\ UNCHANGED <<downloadVars, compressVars, dirVars, mainVars>>
    /\ UNCHANGED <<disk, all_files, futures, valid_pdfs, target_groups,
                   num_output_files, buckets, bucket_sizes, next_item,
                   next_bucket, merged_out, successfully_merged>>

NextMerge ==
    \/ ListFiles
    \/ \E f \in futures : AnalysisCompleted(f)
    \/ PrepareBuckets
    \/ AssignItem
    \/ AssignDone
    \/ MergeBucket
    \/ MergeReturn

SpecMerge == InitMerge /\ [][NextMerge]_vars

\* ------------------------------------------------------- merge properties
\* the state after the assignment loop (line 244 onwards)
AfterAssignment ==
    mpc = "consolidate" \/ (mpc = "done" /\ merge_result = "output_dir")

\* the files whose measured size is positive
ValidFiles == {f \in all_files : GetPdfSizeInfo(f)[1] > 0}

\* the (bucket, position) pairs holding path f
Places(f) ==
    {p \in (1..Len(buckets)) \X (1..Cardinality(all_files)) :
        p[2] <= Len(buckets[p[1]]) /\ buckets[p[1]][p[2]] = f}

\* C1: after the assignment loop every valid file (measured size > 0) is in
\* exactly one bucket, no invalid file is in any bucket, and the bucket
\* sizes add up to the sizes of the valid files.
C1_BucketsPartitionValidFiles ==
    AfterAssignment =>
        /\ \A f \in ValidFiles : Cardinality(Places(f)) = 1
        /\ \A f \in all_files \ ValidFiles : Places(f) = {}
        /\ SumSeq(bucket_sizes) = SumOver(ValidFiles, [f \in ValidFiles |-> GetPdfSizeInfo(f)[1]])

C1_Witness ==
    /\ AfterAssignment
    /\ Cardinality(ValidFiles) >= 2
    /\ all_files \ ValidFiles # {}
    /\ Len(buckets) >= 2

NonEmptyBuckets == {i \in 1..Len(buckets) : buckets[i] # <<>>}

\* C2: for target_groups >= 1 and n >= 1 valid items the assignment ends with
\* exactly min(target_groups, n) buckets, all of them non-empty.
C2_NonEmptyBucketCount ==
    AfterAssignment =>
        /\ Len(buckets) = Min(target_groups, Cardinality(ValidFiles))
        /\ Cardinality(NonEmptyBuckets) = Min(target_groups, Cardinality(ValidFiles))

C2_Witness ==
    /\ AfterAssignment
    /\ target_groups > Cardinality(ValidFiles)
    /\ Cardinality(ValidFiles) >= 2

MaxItemWeight == CHOOSE m \in {GetPdfSizeInfo(f)[1] : f \in ValidFiles} :
                    \A f \in ValidFiles : GetPdfSizeInfo(f)[1] <= m

\* C3: no bucket weighs more than the largest item plus the average bucket
\* weight (total / number of buckets); stated without division.
C3_BucketWeightBound ==
    AfterAssignment =>
        \A i \in 1..Len(buckets) :
            bucket_sizes[i] * Len(buckets)
                <= MaxItemWeight * Len(buckets) + SumSeq(bucket_sizes)

C3_Witness ==
    /\ AfterAssignment
    /\ Len(buckets) >= 2
    /\ \E i \in 1..Len(buckets) : Len(buckets[i]) >= 2

ScenarioAssigned ==
    disk = ScenarioDisk /\ target_groups = 3 /\ AfterAssignment

\* C4 as stated: weights [50,40,30,20,10] into 3 buckets end as [50,60,40].
C4_ScenarioAsStated == ScenarioAssigned => bucket_sizes = <<50, 60, 40>>

\* C4 amended: weights [50,40,30,20,10] into 3 buckets end as [50,50,50]
\* (50 | 40+10 | 30+20), whatever the completion order of the analysis.
C4_ScenarioWeights == ScenarioAssigned => bucket_sizes = <<50, 50, 50>>

C4_Witness == ScenarioAssigned /\ buckets = <<<<1>>, <<2, 5>>, <<3, 4>>>>

\* one iteration of the assignment loop, seen from outside: the item taken
\* is no heavier than the one before it, and it lands in a bucket that is a
\* lightest one and has no equally light bucket before it
GreedyStep ==
    (mpc = "assign" /\ next_item' = next_item + 1) =>
        LET t == valid_pdfs[next_item]
        IN /\ next_item > 1 => valid_pdfs[next_item - 1][1] >= t[1]
           /\ \E i \in 1..Len(buckets) :
                /\ \A j \in 1..Len(bucket_sizes) : bucket_sizes[i] <= bucket_sizes[j]
                /\ \A j \in 1..(i - 1) : bucket_sizes[j] > bucket_sizes[i]
                /\ buckets' = [buckets EXCEPT ![i] = Append(@, t[3])]
                /\ bucket_sizes' = [bucket_sizes EXCEPT ![i] = @ + t[1]]

\* C18: the assignment loop takes the valid items in non-increasing order of
\* weight and puts each one in the bucket whose running total is smallest at
\* that moment, the lowest-indexed one among those tied for the minimum.
C18_GreedyLowestIndexMin == [][GreedyStep]_vars

\* three items of weight one over two buckets: the third met a tie of the two
\* running totals and went to the first bucket
C18_Witness ==
    /\ mpc = "assign"
    /\ next_item = 4
    /\ bucket_sizes = <<2, 1>>
    /\ Len(buckets[1]) = 2
    /\ Len(buckets[2]) = 1

\* the (size, pages, path) triples of the valid files, as a set
AnalysedSet == {GetPdfSizeInfo(f) : f \in ValidFiles}

\* a before b: heavier first, then more pages, then the greater path
Before(a, b) ==
    \/ a[1] > b[1]
    \/ a[1] = b[1] /\ a[2] > b[2]
    \/ a[1] = b[1] /\ a[2] = b[2] /\ a[3] >= b[3]

\* the one descending list a set of triples with distinct paths has
RECURSIVE DescendingOf(_)
DescendingOf(S) ==
    IF S = {} THEN <<>>
    ELSE LET first == CHOOSE t \in S : \A x \in S : Before(t, x)
         IN <<first>> \o DescendingOf(S \ {first})

\* the buckets that taking the items one by one into the first of the
\* lightest buckets gives
RECURSIVE FillInOrder(_, _, _)
FillInOrder(items, filled, weights) ==
    IF items = <<>> THEN filled
    ELSE LET i == CHOOSE k \in 1..Len(weights) :
                     /\ \A j \in 1..Len(weights) : weights[k] <= weights[j]
                     /\ \A j \in 1..(k - 1) : weights[j] > weights[k]
         IN FillInOrder(Tail(items),
                        [filled EXCEPT ![i] = Append(@, items[1][3])],
                        [weights EXCEPT ![i] = @ + items[1][1]])

\* the assignment as a function of the set of triples and the group count
BucketsOfSet(S, groups) ==
    LET n == Min(groups, Cardinality(S))
    IN FillInOrder(DescendingOf(S), [i \in 1..n |-> <<>>], [i \in 1..n |-> 0])

\* C23: for a given set of analysed (size, pages, path) triples with distinct
\* paths and a given group count, every completion order of the analysis
\* workers ends the assignment loop with the same buckets, holding the same
\* paths in the same order: the buckets are a function of the set alone.
C23_BucketsIndependentOfCompletionOrder ==
    AfterAssignment => buckets = BucketsOfSet(AnalysedSet, target_groups)

\* two files of the same size and page count, told apart by their paths only,
\* went to different buckets
C23_Witness ==
    /\ AfterAssignment
    /\ \E f, g \in ValidFiles :
         /\ f # g
         /\ disk[f].size = disk[g].size
         /\ disk[f].pages = disk[g].pages
         /\ \E i, j \in 1..Len(buckets) :
              i # j /\ f \in Range(buckets[i]) /\ g \in Range(buckets[j])

\* the buckets the consolidation loop has handed to merge_pdf_bucket
Consolidated ==
    {i \in 1..Len(buckets) :
        mpc \in {"consolidate", "done"} /\ i < next_bucket /\ buckets[i] # <<>>}

\* C16: for every bucket handed to merge_pdf_bucket, the merger holds exactly
\* the bucket's items whose append did not raise, in bucket order; the output
\* file is written and success returned exactly when at least one item was
\* appended and the write did not raise; with zero items appended no file is
\* written and failure is returned. successfully_merged counts the successes.
C16_MergePdfBucketContract ==
    /\ \A i \in Consolidated :
         LET r == merged_out[i]
             b == buckets[i]
         IN /\ Range(r.merger) = Range(b) \ r.raised
            /\ \A j, k \in 1..Len(r.merger) :
                 j < k => ListIndex(b, r.merger[j]) < ListIndex(b, r.merger[k])
            /\ r.ok <=> (Len(r.merger) >= 1 /\ r.file = "written")
            /\ r.file = "written" => r.ok
            /\ Len(r.merger) = 0 => (r.file = "none" /\ ~r.ok)
    /\ mpc \in {"consolidate", "done"} =>
         successfully_merged = Cardinality({i \in Consolidated : merged_out[i].ok})

\* a bucket of two items, the first of which failed to append, was written
C16_Witness ==
    \E i \in Consolidated :
        /\ Len(buckets[i]) = 2
        /\ merged_out[i].raised = {buckets[i][1]}
        /\ merged_out[i].merger = <<buckets[i][2]>>
        /\ merged_out[i].ok

\* ============================================================= DOWNLOAD ==
\* Strings are sequences of one-character strings.
Lowers == <<"a","b","c","d","e","f","g","h","i","j","k","l","m",
            "n","o","p","q","r","s","t","u","v","w","x","y","z">>
Uppers == <<"A","B","C","D","E","F","G","H","I","J","K","L","M",
            "N","O","P","Q","R","S","T","U","V","W","X","Y","Z">>
Digits == {"0","1","2","3","4","5","6","7","8","9"}

\* the character class [a-zA-Z0-9._-] of line 30
SafeChar(c) == c \in Range(Lowers) \cup Range(Uppers) \cup Digits \cup {".", "_", "-"}

LowerChar(c) ==
    IF c \in Range(Uppers) THEN Lowers[CHOOSE i \in 1..26 : Uppers[i] = c] ELSE c

\* str.lower()
Lower(s) == [i \in 1..Len(s) |-> LowerChar(s[i])]

\* str.endswith(suffix)
EndsWith(s, suffix) ==
    /\ Len(s) >= Len(suffix)
    /\ SubSeq(s, Len(s) - Len(suffix) + 1, Len(s)) = suffix

Positions(s, c) == {i \in 1..Len(s) : s[i] = c}
SetMax(S) == CHOOSE m \in S : \A x \in S : x <= m
SetMin(S) == CHOOSE m \in S : \A x \in S : m <= x

\* s.split(c)[-1]
SplitLast(s, c) ==
    IF Positions(s, c) = {} THEN s
    ELSE SubSeq(s, SetMax(Positions(s, c)) + 1, Len(s))

\* s.split(c)[0]
SplitFirst(s, c) ==
    IF Positions(s, c) = {} THEN s
    ELSE SubSeq(s, 1, SetMin(Positions(s, c)) - 1)

\* os.path.join(a, b) on a POSIX system
PathJoin(a, b) ==
    IF b # <<>> /\ b[1] = "/" THEN b
    ELSE IF a = <<>> \/ a[Len(a)] = "/" THEN a \o b
    ELSE a \o <<"/">> \o b

\* re.sub(r'[^a-zA-Z0-9._-]', '_', s)
Sanitize(s) == [i \in 1..Len(s) |-> IF SafeChar(s[i]) THEN s[i] ELSE "_"]

DotPdf == <<".", "p", "d", "f">>

\* lines 28-32: the local file name download_pdf derives from the URL
Filename(url, dir) ==
    LET cleaned == Sanitize(PathJoin(dir, SplitFirst(SplitLast(url, "/"), "?")))
    IN IF EndsWith(Lower(cleaned), DotPdf) THEN cleaned ELSE cleaned \o DotPdf

\* os.path.dirname / os.path.basename of a relative path; the empty
\* directory name is the working directory, written "."
DirName(path) ==
    IF Positions(path, "/") = {} THEN <<".">>
    ELSE SubSeq(path, 1, SetMax(Positions(path, "/")) - 1)

BaseName(path) == SplitLast(path, "/")

\* line 200: the entries of pdf_dir whose name ends in .pdf in any case
Listing(pdf_dir) ==
    {path \in DOMAIN fs :
        /\ fs[path].state # "absent"
        /\ DirName(path) = pdf_dir
        /\ EndsWith(Lower(BaseName(path)), DotPdf)}

\* sample links: two directories holding the same name, a query string, a
\* name with a space and an upper-case suffix, a name without a suffix
UrlHost == <<"h", ":", "/", "/", "s", "/">>
UrlPool ==
    { UrlHost \o <<"a", "/", "x", ".", "p", "d", "f">>,
      UrlHost \o <<"b", "/", "x", ".", "p", "d", "f", "?", "v", "=", "1">>,
      UrlHost \o <<"a", "/", "y", " ", "z", ".", "P", "D", "F">>,
      UrlHost \o <<"g", "?", "f", "=", "w", ".", "p", "d", "f">> }

\* destination directories: the working directory and a sub-directory
DirPool == { <<".">>, <<"d", "l">> }

\* the page address handed to the `all` command
TargetUrl == UrlHost \o <<"p">>

PdfDownloadsPrefix ==
    <<"P", "D", "F", "_", "D", "o", "w", "n", "l", "o", "a", "d", "s", "_">>

\* line 64: the directory used when download_dir is not given
DefaultDownloadDir(target_url) == PdfDownloadsPrefix \o BaseName(target_url)

AllDirPool == DirPool \cup {DefaultDownloadDir(TargetUrl)}

\* lines 28-32 for every sample link and directory, computed once
LocalName == [u \in UrlPool, d \in AllDirPool |-> Filename(u, d)]

\* how a remote end answers: always, never (connection refused on every
\* attempt), or differently on each attempt
Behaviours == {"ok", "down", "flaky"}

\* outcomes of lines 38-41 (request, status check, open for writing)
GetOutcomes(b) ==
    CASE b = "ok" -> {"opened"}
      [] b = "down" -> {"neterr"}
      [] OTHER -> {"opened", "neterr", "fatal"}

\* outcomes of lines 42-45 (streaming the body into the file)
StreamOutcomes(b) ==
    CASE b = "ok" -> {"complete"}
      [] OTHER -> {"complete", "neterr", "fatal"}

NewTask ==
    [st |-> "queued", retry_count |-> 0, attempts |-> 0, sleeps |-> 0,
     fatal_at |-> 0, result |-> "none", filename |-> <<>>]

\* a handler that sleeps after the last failed attempt as well
OnRequestExceptionAlwaysSleeps(t, m) ==
    [t EXCEPT !.retry_count = @ + 1, !.st = "sleep", !.sleeps = @ + 1]

\* lines 46-53: the handler of requests.RequestException
OnRequestException(t, m) ==
    IF t.retry_count + 1 < m
    THEN [t EXCEPT !.retry_count = @ + 1, !.st = "sleep", !.sleeps = @ + 1]
    ELSE [t EXCEPT !.retry_count = @ + 1, !.st = "done", !.result = "false"]

\* a handler that treats every exception as retryable
OnExceptionRetried(t, m) ==
    OnRequestException([t EXCEPT !.fatal_at = t.attempts], m)

\* lines 54-56: the handler of every other exception
OnException(t, m) ==
    [t EXCEPT !.st = "done", !.result = "false", !.fatal_at = t.attempts]

Running == {u \in pdf_urls : task[u].st \in {"get", "stream", "sleep"}}

\* a pool that starts a queued call while as many calls as workers are running
PoolAdmitsOneMore(running, workers) == Cardinality(running) <= workers

\* ThreadPoolExecutor(max_workers=...): a queued call starts when fewer than
\* max_workers calls are running (lines 109 and 438)
PoolHasIdleWorker(running, workers) == Cardinality(running) < workers

DownloadStart(P, b, d, w, m, pc) ==
    /\ MergeIdle
    /\ CompressIdle
    /\ CompressDirIdle
    /\ dpc = pc
    /\ page = P
    /\ behaviour = b
    /\ download_dir = d
    /\ max_workers = w
    /\ num_retries = m
    /\ pdf_urls = IF pc = "direct" THEN P ELSE {}
    /\ task = [u \in P |-> NewTask]
    /\ fs = [path \in {LocalName[u, d] : u \in P} |-> [state |-> "absent", by |-> <<>>]]
    /\ collected = {}
    /\ successful_downloads = 0
    /\ failed_downloads = 0
    /\ download_result = "none"

\* line 25: the default of num_retries, which the batch does not override
DefaultRetries == 3

\* a batch over the links of a page, or one direct call of download_pdf
InitDownload ==
    /\ MainIdle
    /\ \/ \E P \in SUBSET UrlPool : \E d \in DirPool : \E w \in 1..MaxWorkers :
            /\ Cardinality(P) <= MaxUrls
            /\ \E b \in [P -> Behaviours] :
                 DownloadStart(P, b, d, w, DefaultRetries, "fetch_page")
       \/ \E u \in UrlPool : \E d \in DirPool : \E m \in 1..MaxRetries :
            \E b \in [{u} -> Behaviours] : DownloadStart({u}, b, d, 1, m, "direct")

\* lines 69-113: fetch and parse the page; an error or an empty link set
\* returns None, otherwise every link is submitted to the pool
FetchPage ==
    /\ dpc = "fetch_page"
    /\ \E page_ok \in BOOLEAN :
         IF page_ok /\ page # {}
         THEN /\ dpc' = "running"
              /\ pdf_urls' = page
              /\ download_result' = download_result
         ELSE /\ dpc' = "returned"
              /\ pdf_urls' = pdf_urls
              /\ download_result' = "None"
    /\ UNCHANGED <<page, behaviour, download_dir, max_workers, num_retries,
                   task, fs, collected, successful_downloads, failed_downloads>>
    /\ UNCHANGED <<mergeVars, compressVars, dirVars, mainVars>>

\* a worker (or the direct caller) enters download_pdf: lines 27-34
StartTask(u) ==
    /\ dpc \in {"running", "direct"}
    /\ u \in pdf_urls
    /\ task[u].st = "queued"
    /\ (dpc = "direct" \/ PoolHasIdleWorker(Running, max_workers))
    /\ task' = [task EXCEPT ![u] = [@ EXCEPT !.st = "get",
                                             !.filename = LocalName[u, download_dir]]]
    /\ UNCHANGED <<dpc, page, behaviour, download_dir, max_workers, num_retries,
                   pdf_urls, fs, collected, successful_downloads,
                   failed_downloads, download_result>>
    /\ UNCHANGED <<mergeVars, compressVars, dirVars, mainVars>>

\* lines 35-41: one attempt up to the opening of the local file, which
\* truncates it
AttemptGet(u) ==
    /\ u \in pdf_urls
    /\ task[u].st = "get"
    /\ \E o \in GetOutcomes(behaviour[u]) :
         LET t == [task[u] EXCEPT !.attempts = @ + 1]
         IN CASE o = "opened" ->
                   /\ task' = [task EXCEPT ![u] = [t EXCEPT !.st = "stream"]]
                   /\ fs' = [fs EXCEPT ![t.filename] = [state |-> "partial", by |-> u]]
              [] o = "neterr" ->
                   /\ task' = [task EXCEPT ![u] = OnRequestException(t, num_retries)]
                   /\ fs' = fs
              [] OTHER ->
                   /\ task' = [task EXCEPT ![u] = OnException(t, num_retries)]
                   /\ fs' = fs
    /\ UNCHANGED <<dpc, page, behaviour, download_dir, max_workers, num_retries,
                   pdf_urls, collected, successful_downloads, failed_downloads,
                   download_result>>
    /\ UNCHANGED <<mergeVars, compressVars, dirVars, mainVars>>

\* lines 42-45: the body is streamed into the open file; an error leaves
\* what was written so far
Stream(u) ==
    /\ u \in pdf_urls
    /\ task[u].st = "stream"
    /\ \E o \in StreamOutcomes(behaviour[u]) :
         CASE o = "complete" ->
                /\ task' = [task EXCEPT ![u] = [@ EXCEPT !.st = "done", !.result = "true"]]
                /\ fs' = [fs EXCEPT ![task[u].filename] = [state |-> "complete", by |-> u]]
           [] o = "neterr" ->
                /\ task' = [task EXCEPT ![u] = OnRequestException(@, num_retries)]
                /\ fs' = fs
           [] OTHER ->
                /\ task' = [task EXCEPT ![u] = OnException(@, num_retries)]
                /\ fs' = fs
    /\ UNCHANGED <<dpc, page, behaviour, download_dir, max_workers, num_retries,
                   pdf_urls, collected, successful_downloads, failed_downloads,
                   download_result>>
    /\ UNCHANGED <<mergeVars, compressVars, dirVars, mainVars>>

\* line 50 returns and line 35 tests the loop condition again; leaving the
\* loop returns None
Wake(u) ==
    /\ u \in pdf_urls
    /\ task[u].st = "sleep"
    /\ task' = [task EXCEPT ![u] =
                  IF @.retry_count < num_retries
                  THEN [@ EXCEPT !.st = "get"]
                  ELSE [@ EXCEPT !.st = "done", !.result = "none"]]
    /\ UNCHANGED <<dpc, page, behaviour, download_dir, max_workers, num_retries,
                   pdf_urls, fs, collected, successful_downloads,
                   failed_downloads, download_result>>
    /\ UNCHANGED <<mergeVars, compressVars, dirVars, mainVars>>

\* a count that books every finished future as a success
IsSuccessAlways(result) == TRUE

\* lines 118-127: (True, name) counts as a success; (False, None) and a
\* result that cannot be unpacked count as a failure
IsSuccess(result) == result = "true"

\* lines 115-127: as_completed yields a finished future
Collect(u) ==
    /\ dpc = "running"
    /\ u \in pdf_urls \ collected
    /\ task[u].st = "done"
    /\ collected' = collected \cup {u}
    /\ IF IsSuccess(task[u].result)
       THEN /\ successful_downloads' = successful_downloads + 1
            /\ failed_downloads' = failed_downloads
       ELSE /\ successful_downloads' = successful_downloads
            /\ failed_downloads' = failed_downloads + 1
    /\ UNCHANGED <<dpc, page, behaviour, download_dir, max_workers, num_retries,
                   pdf_urls, task, fs, download_result>>
    /\ UNCHANGED <<mergeVars, compressVars, dirVars, mainVars>>

\* a collecting loop that ends after the first future it was given
AsCompletedEndsEarly(yielded, submitted) == yielded # {}

\* lines 109-128: the loop over as_completed and the with block of the pool
\* end when every submitted future has been yielded
AsCompletedExhausted(yielded, submitted) == yielded = submitted

\* lines 129-135
BatchReturn ==
    /\ dpc = "running"
    /\ AsCompletedExhausted(collected, pdf_urls)
    /\ dpc' = "returned"
    /\ download_result' = "download_dir"
    /\ UNCHANGED <<page, behaviour, download_dir, max_workers, num_retries,
                   pdf_urls, task, fs, collected, successful_downloads,
                   failed_downloads>>
    /\ UNCHANGED <<mergeVars, compressVars, dirVars, mainVars>>

NextDownload ==
    \/ FetchPage
    \/ \E u \in pdf_urls : StartTask(u)
    \/ \E u \in pdf_urls : AttemptGet(u)
    \/ \E u \in pdf_urls : Stream(u)
    \/ \E u \in pdf_urls : Wake(u)
    \/ \E u \in pdf_urls : Collect(u)
    \/ BatchReturn

SpecDownload == InitDownload /\ [][NextDownload]_vars

\* the pool's threads and the collecting loop keep running
FairDownload == SpecDownload /\ WF_vars(NextDownload)

\* ---------------------------------------------------- download properties
BatchReturned == dpc = "returned" /\ download_result = "download_dir"

UrlsWith(b) == {u \in pdf_urls : behaviour[u] = b}

\* C5: a batch over N distinct URLs records one outcome per URL: successes
\* plus failures is N, and when k URLs are unreachable on every attempt and
\* the other N-k succeed it records exactly N-k successes and k failures.
C5_BatchCountsEveryUrlOnce ==
    BatchReturned =>
        /\ collected = pdf_urls
        /\ successful_downloads + failed_downloads = Cardinality(pdf_urls)
        /\ successful_downloads =
             Cardinality({u \in pdf_urls : task[u].result = "true"})
        /\ UrlsWith("flaky") = {} =>
             /\ successful_downloads = Cardinality(UrlsWith("ok"))
             /\ failed_downloads = Cardinality(UrlsWith("down"))

C5_Witness ==
    /\ BatchReturned
    /\ UrlsWith("flaky") = {}
    /\ UrlsWith("ok") # {}
    /\ UrlsWith("down") # {}

Done(u) == u \in pdf_urls /\ task[u].st = "done"

RetryPolicy ==
    \A u \in pdf_urls :
        LET t == task[u]
        IN /\ t.attempts <= num_retries
           /\ t.st = "done" => t.result \in {"true", "false"}
           /\ t.st = "done" => t.sleeps = t.attempts - 1
           /\ t.result = "true" => t.st = "done"
           /\ (t.st = "done" /\ t.result = "false" /\ t.fatal_at = 0) =>
                 t.attempts = num_retries

\* C6: download_pdf with num_retries = m >= 1 makes at most m attempts and
\* returns; when every attempt fails with a network error it makes exactly m
\* attempts, sleeping after each but the last, and returns failure; a
\* successful attempt ends the call with success.
C6_BoundedRetriesTerminate ==
    /\ []RetryPolicy
    /\ <>(\/ dpc = "returned"
          \/ dpc = "direct" /\ \A u \in pdf_urls : Done(u))

C6_Witness ==
    \E u \in pdf_urls :
        /\ Done(u)
        /\ num_retries >= 2
        /\ task[u].result = "false"
        /\ task[u].fatal_at = 0
        /\ task[u].sleeps = num_retries - 1

C8_DistinctLocalPaths ==
    \A u, v \in pdf_urls :
        (u # v /\ task[u].st # "queued" /\ task[v].st # "queued") =>
            task[u].filename # task[v].filename

\* C9: once the batch has returned, a URL whose download_pdf call returned
\* failure has left no file of its own among the files that merge_pdfs lists
\* in the destination directory.
C9_FailedFetchLeavesNoFile ==
    BatchReturned =>
        \A u \in pdf_urls :
            task[u].result = "false" =>
                ~ (/\ task[u].filename \in Listing(download_dir)
                   /\ fs[task[u].filename].by = u)

\* the last segment of the URL without its query string, made safe and
\* ending in .pdf
SanitizedName(url) ==
    LET cleaned == Sanitize(SplitFirst(SplitLast(url, "/"), "?"))
    IN IF EndsWith(Lower(cleaned), DotPdf) THEN cleaned ELSE cleaned \o DotPdf

InDestination == [u \in UrlPool, d \in AllDirPool |-> d \o <<"/">> \o SanitizedName(u)]

Fetched == {u \in pdf_urls : task[u].result = "true"}

\* C22: a file that download_pdf reports as fetched is stored at destination
\* directory + separator + sanitized name, inside the destination directory,
\* and once the batch has returned the files merge_pdfs lists in that
\* directory are exactly the fetched files.
C22_FetchedFilesInDestination ==
    /\ \A u \in Fetched :
         /\ task[u].filename = InDestination[u, download_dir]
         /\ task[u].filename \in Listing(download_dir)
    /\ BatchReturned => Listing(download_dir) = {task[u].filename : u \in Fetched}

\* ============================================================= COMPRESS ==
\* lines 332 and 376: the 100MB limit
CeilingMB == 100

Sizes == (CeilingMB - MaxDelta)..(CeilingMB + MaxDelta)

\* str.replace(old, new): every occurrence, left to right
RECURSIVE Replace(_, _, _)
Replace(s, old, new) ==
    IF Len(s) < Len(old) THEN s
    ELSE IF SubSeq(s, 1, Len(old)) = old
    THEN new \o Replace(SubSeq(s, Len(old) + 1, Len(s)), old, new)
    ELSE <<s[1]>> \o Replace(Tail(s), old, new)

MoreCompressedPdf ==
    <<"_", "m", "o", "r", "e", "_", "c", "o", "m", "p", "r", "e", "s", "s", "e", "d",
      ".", "p", "d", "f">>

\* line 334
MoreAggressiveOutput(out) == Replace(out, DotPdf, MoreCompressedPdf)

\* names compress_pdf_directory accepts (line 392: any case of .pdf)
NamePool ==
    { <<"m", ".", "p", "d", "f">>,
      <<"M", ".", "P", "D", "F">>,
      <<"m", ".", "P", "d", "f">> }

OutDirPool == { <<"o", "u", "t">> }

\* line 421: the output path compress_pdf_directory hands over
OutputPath(dir, name) == PathJoin(dir, name)

\* a Ghostscript run that exits non-zero leaves the target as it was or
\* leaves a broken file there
AfterFailedRun(files, path) ==
    {files} \cup {[files EXCEPT ![path] = [size |-> sz, kind |-> "broken"]] : sz \in Sizes}

InitCompress ==
    /\ MergeIdle
    /\ DownloadIdle
    /\ CompressDirIdle
    /\ MainIdle
    /\ spc = "baseline"
    /\ \E name \in NamePool : \E dir \in OutDirPool :
         /\ output_file = OutputPath(dir, name)
         /\ more_aggressive_output = <<>>
         /\ cfs = [path \in {OutputPath(dir, name),
                             MoreAggressiveOutput(OutputPath(dir, name))} |-> NoFile]
    /\ original_size \in (CeilingMB + 1)..(CeilingMB + MaxDelta)
    /\ baseline_size = 0
    /\ compressed_size = 0
    /\ more_compressed_size = 0
    /\ super_result = <<>>

\* line 332
StillOverLimit(size_mb) == size_mb > CeilingMB

\* line 376
UnderLimit(size_mb) == size_mb < CeilingMB

\* lines 323-334 and 376-380: the first Ghostscript run
BaselinePass ==
    /\ spc = "baseline"
    /\ \/ \E files \in AfterFailedRun(cfs, output_file) :
            /\ cfs' = files
            /\ spc' = "returned"
            /\ super_result' = <<FALSE, original_size>>
            /\ UNCHANGED <<baseline_size, compressed_size, more_aggressive_output>>
       \/ \E sz \in Sizes :
            /\ cfs' = [cfs EXCEPT ![output_file] = [size |-> sz, kind |-> "baseline"]]
            /\ baseline_size' = sz
            /\ compressed_size' = sz
            /\ IF StillOverLimit(sz)
               THEN /\ spc' = "aggressive"
                    /\ more_aggressive_output' = MoreAggressiveOutput(output_file)
                    /\ super_result' = super_result
               ELSE /\ spc' = "returned"
                    /\ more_aggressive_output' = more_aggressive_output
                    /\ super_result' = <<UnderLimit(sz), sz>>
    /\ UNCHANGED <<output_file, original_size, more_compressed_size>>
    /\ UNCHANGED <<mergeVars, downloadVars, dirVars, mainVars>>

\* lines 337-361 and 378-380: the second Ghostscript run
AggressivePass ==
    /\ spc = "aggressive"
    /\ \/ \E files \in AfterFailedRun(cfs, more_aggressive_output) :
            /\ cfs' = files
            /\ spc' = "returned"
            /\ super_result' = <<FALSE, original_size>>
            /\ UNCHANGED more_compressed_size
       \/ \E sz \in Sizes :
            /\ cfs' = [cfs EXCEPT ![more_aggressive_output] =
                                        [size |-> sz, kind |-> "aggressive"]]
            /\ more_compressed_size' = sz
            /\ spc' = "compare"
            /\ super_result' = super_result
    /\ UNCHANGED <<output_file, more_aggressive_output, original_size,
                   baseline_size, compressed_size>>
    /\ UNCHANGED <<mergeVars, downloadVars, dirVars, mainVars>>

\* line 364
UseMoreAggressive(more, first) == more < first

\* lines 363-376: keep the smaller result; os.rename of a path that os.remove
\* has just deleted raises FileNotFoundError, which nothing catches
CommitSmaller ==
    /\ spc = "compare"
    /\ IF UseMoreAggressive(more_compressed_size, compressed_size)
       THEN LET removed == [cfs EXCEPT ![output_file] = NoFile]
            IN IF removed[more_aggressive_output] = NoFile
               THEN /\ cfs' = removed
                    /\ spc' = "raised"
                    /\ UNCHANGED <<compressed_size, super_result>>
               ELSE /\ cfs' = [removed EXCEPT ![output_file] = removed[more_aggressive_output],
                                              ![more_aggressive_output] = NoFile]
                    /\ compressed_size' = more_compressed_size
                    /\ spc' = "returned"
                    /\ super_result' = <<UnderLimit(more_compressed_size),
                                         more_compressed_size>>
       ELSE /\ cfs' = [cfs EXCEPT ![more_aggressive_output] = NoFile]
            /\ spc' = "returned"
            /\ super_result' = <<UnderLimit(compressed_size), compressed_size>>
            /\ UNCHANGED compressed_size
    /\ UNCHANGED <<output_file, more_aggressive_output, original_size,
                   baseline_size, more_compressed_size>>
    /\ UNCHANGED <<mergeVars, downloadVars, dirVars, mainVars>>

NextCompress ==
    \/ BaselinePass
    \/ AggressivePass
    \/ CommitSmaller

SpecCompress == InitCompress /\ [][NextCompress]_vars

\* ---------------------------------------------------- compress properties
BothPassesSucceeded ==
    /\ spc \in {"returned", "raised"}
    /\ baseline_size > CeilingMB
    /\ more_compressed_size # 0

\* C10: when the baseline result is over the limit and both passes succeed,
\* exactly one artifact survives, at the output path, and it is the smaller
\* of the two results (the baseline result on equal sizes).
C10_SmallerResultSurvives ==
    BothPassesSucceeded =>
        /\ cfs[output_file] =
             IF more_compressed_size < baseline_size
             THEN [size |-> more_compressed_size, kind |-> "aggressive"]
             ELSE [size |-> baseline_size, kind |-> "baseline"]
        /\ \A path \in DOMAIN cfs \ {output_file} : cfs[path] = NoFile


\* the call has returned after a baseline result over the limit and an
\* aggressive run that exited non-zero
AggressiveFailed ==
    /\ spc = "returned"
    /\ baseline_size > CeilingMB
    /\ more_compressed_size = 0

\* C11: when the baseline pass succeeds with a result over the limit and the
\* aggressive pass fails, the file at the output path is still the baseline
\* result, neither removed nor replaced.
C11_BaselineKeptOnAggressiveFailure ==
    AggressiveFailed =>
        cfs[output_file] = [size |-> baseline_size, kind |-> "baseline"]

\* C20: the returned pair describes the file left at the output path:
\* final_size is its size and under_ceiling is true exactly when that size is
\* below the limit, on the failure paths too.
C20_ResultDescribesArtifact ==
    spc = "returned" =>
        /\ cfs[output_file] # NoFile
        /\ super_result[2] = cfs[output_file].size
        /\ super_result[1] <=> cfs[output_file].size < CeilingMB


\* ==================================================== COMPRESS DIRECTORY ==
\* an entry that line 392 leaves out
NotesTxt == <<"n", ".", "t", "x", "t">>

AllNames == NamePool \cup {NotesTxt}

\* sizes of the entries of input_dir: just under, at and just over 100MB
InputSizes == (CeilingMB - 1)..(CeilingMB + 1)

\* line 392
IsPdfName(f) == EndsWith(Lower(f), DotPdf)

\* line 413
IsLarge(size_mb) == size_mb > CeilingMB

\* line 435: the pool size when max_workers is not given
DefaultWorkerCap == 4

DigitOf == <<"0", "1", "2", "3", "4", "5", "6", "7", "8", "9">>

\* format(n, "03d") for n below 1000
Pad3(n) ==
    <<DigitOf[((n \div 100) % 10) + 1], DigitOf[((n \div 10) % 10) + 1],
      DigitOf[(n % 10) + 1]>>

\* line 252: the name of the file written for buckets[k - 1], k = i + 1
MergedName(k) == <<"m", "e", "r", "g", "e", "d", "_">> \o Pad3(k) \o DotPdf

MergedNames == {MergedName(k) : k \in 1..Min(MaxGroups, MaxInputs)}

DirNames == AllNames \cup MergedNames

\* lines 421 and 445, and line 334 applied to them, computed once
OutputPathOf == [d \in OutDirPool, f \in DirNames |-> OutputPath(d, f)]

TempPathOf ==
    [d \in OutDirPool, f \in DirNames |-> MoreAggressiveOutput(OutputPath(d, f))]

SuperIdle ==
    /\ spc = "idle"
    /\ output_file = <<>>
    /\ more_aggressive_output = <<>>
    /\ original_size = 0
    /\ baseline_size = 0
    /\ compressed_size = 0
    /\ more_compressed_size = 0
    /\ super_result = <<>>

NotHandled == [super |-> 0, pool |-> 0, filter_failed |-> FALSE]

\* the call compress_pdf_directory(input_dir, d, quality, w) on a directory
\* holding the entries of files (exists = FALSE: there is no such directory)
CompressDirStart(exists, files, d, w) ==
    /\ SuperIdle
    /\ cfs = [path \in {OutputPathOf[d, f] : f \in DOMAIN files}
                       \cup {TempPathOf[d, f] : f \in DOMAIN files} |-> NoFile]
    /\ cpc = "list"
    /\ input_dir_exists = exists
    /\ input_files = files
    /\ out_dir = d
    /\ compress_workers = w
    /\ pdf_files = {}
    /\ large_pdfs = {}
    /\ large_left = {}
    /\ pdf_path = <<>>
    /\ regular_pdfs = {}
    /\ ctask = <<>>
    /\ ccollected = {}
    /\ total_original_size = 0
    /\ total_compressed_size = 0
    /\ successfully_compressed = 0
    /\ handled = <<>>
    /\ compress_result = "none"

InitCompressDir ==
    /\ MergeIdle
    /\ DownloadIdle
    /\ MainIdle
    /\ \E d \in OutDirPool : \E w \in 0..MaxWorkers :
         \/ CompressDirStart(FALSE, <<>>, d, w)
         \/ \E names \in SUBSET AllNames :
              /\ Cardinality(names) <= MaxInputs
              /\ \E files \in [names -> InputSizes] :
                   /\ Cardinality({f \in names : IsLarge(files[f])}) <= MaxLarge
                   /\ CompressDirStart(TRUE, files, d, w)

\* lines 387-414: the two early returns, the listing and the search for
\* files over 100MB
ListInput ==
    /\ cpc = "list"
    /\ LET listed == {f \in DOMAIN input_files : IsPdfName(f)}
       IN IF ~input_dir_exists \/ listed = {}
          THEN /\ cpc' = "returned"
               /\ compress_result' = "None"
               /\ UNCHANGED <<pdf_files, large_pdfs, large_left, handled>>
          ELSE /\ cpc' = "large"
               /\ compress_result' = compress_result
               /\ pdf_files' = listed
               /\ large_pdfs' = {f \in listed : IsLarge(input_files[f])}
               /\ large_left' = {f \in listed : IsLarge(input_files[f])}
               /\ handled' = [f \in listed |-> NotHandled]
    /\ UNCHANGED <<input_dir_exists, input_files, out_dir, compress_workers,
                   pdf_path, regular_pdfs, ctask, ccollected,
                   total_original_size, total_compressed_size,
                   successfully_compressed>>
    /\ UNCHANGED <<mergeVars, downloadVars, compressVars, mainVars>>

\* lines 419-424: the loop takes the next large file (in listing order, which
\* os.listdir leaves open) and calls super_compress_pdf
SuperCall(f) ==
    /\ cpc = "large"
    /\ f \in large_left
    /\ cpc' = "super"
    /\ pdf_path' = f
    /\ handled' = [handled EXCEPT ![f].super = @ + 1]
    /\ spc' = "baseline"
    /\ output_file' = OutputPathOf[out_dir, f]
    /\ original_size' = input_files[f]
    /\ UNCHANGED <<more_aggressive_output, baseline_size, compressed_size,
                   more_compressed_size, cfs, super_result>>
    /\ UNCHANGED <<input_dir_exists, input_files, out_dir, compress_workers,
                   pdf_files, large_pdfs, large_left, regular_pdfs, ctask,
                   ccollected, total_original_size, total_compressed_size,
                   successfully_compressed, compress_result>>
    /\ UNCHANGED <<mergeVars, downloadVars, mainVars>>

\* lines 424-429: super_compress_pdf has returned; only a message follows
SuperReturn ==
    /\ cpc = "super"
    /\ spc = "returned"
    /\ cpc' = "large"
    /\ large_left' = large_left \ {pdf_path}
    /\ handled' = [handled EXCEPT ![pdf_path].filter_failed = (baseline_size = 0)]
    /\ pdf_path' = <<>>
    /\ spc' = "idle"
    /\ output_file' = <<>>
    /\ more_aggressive_output' = <<>>
    /\ original_size' = 0
    /\ baseline_size' = 0
    /\ compressed_size' = 0
    /\ more_compressed_size' = 0
    /\ super_result' = <<>>
    /\ UNCHANGED cfs
    /\ UNCHANGED <<input_dir_exists, input_files, out_dir, compress_workers,
                   pdf_files, large_pdfs, regular_pdfs, ctask, ccollected,
                   total_original_size, total_compressed_size,
                   successfully_compressed, compress_result>>
    /\ UNCHANGED <<mergeVars, downloadVars, mainVars>>

\* line 424: the FileNotFoundError of super_compress_pdf is caught nowhere
\* in compress_pdf_directory and ends it
SuperRaise ==
    /\ cpc = "super"
    /\ spc = "raised"
    /\ cpc' = "raised"
    /\ UNCHANGED <<input_dir_exists, input_files, out_dir, compress_workers,
                   pdf_files, large_pdfs, large_left, pdf_path, regular_pdfs,
                   ctask, ccollected, total_original_size,
                   total_compressed_size, successfully_compressed, handled,
                   compress_result>>
    /\ UNCHANGED <<mergeVars, downloadVars, compressVars, mainVars>>

\* lines 432-447: the remaining files are submitted to a pool of max_workers,
\* or of min(os.cpu_count(), 4) when max_workers is not given
SubmitRegular ==
    /\ cpc = "large"
    /\ large_left = {}
    /\ cpc' = "pool"
    /\ regular_pdfs' = pdf_files \ large_pdfs
    /\ IF compress_workers = 0
       THEN \E cpu_count \in 1..MaxCpus :
              compress_workers' = Min(cpu_count, DefaultWorkerCap)
       ELSE compress_workers' = compress_workers
    /\ ctask' = [f \in pdf_files \ large_pdfs |-> [st |-> "queued", result |-> <<>>]]
    /\ UNCHANGED <<input_dir_exists, input_files, out_dir, pdf_files, large_pdfs,
                   large_left, pdf_path, ccollected, total_original_size,
                   total_compressed_size, successfully_compressed, handled,
                   compress_result>>
    /\ UNCHANGED <<mergeVars, downloadVars, compressVars, mainVars>>

RunningCompress == {f \in regular_pdfs : ctask[f].st = "running"}

\* a worker of the pool takes a queued compress_pdf call
StartCompress(f) ==
    /\ cpc = "pool"
    /\ f \in regular_pdfs
    /\ ctask[f].st = "queued"
    /\ PoolHasIdleWorker(RunningCompress, compress_workers)
    /\ ctask' = [ctask EXCEPT ![f].st = "running"]
    /\ handled' = [handled EXCEPT ![f].pool = @ + 1]
    /\ UNCHANGED <<cpc, input_dir_exists, input_files, out_dir, compress_workers,
                   pdf_files, large_pdfs, large_left, pdf_path, regular_pdfs,
                   ccollected, total_original_size, total_compressed_size,
                   successfully_compressed, compress_result>>
    /\ UNCHANGED <<mergeVars, downloadVars, compressVars, mainVars>>

\* compress_pdf (lines 275-295): the Ghostscript run leaves a result of any
\* size, or exits non-zero and the input is copied to the output path
CompressPdf(f) ==
    /\ cpc = "pool"
    /\ f \in regular_pdfs
    /\ ctask[f].st = "running"
    /\ \/ \E sz \in Sizes :
            /\ cfs' = [cfs EXCEPT ![OutputPathOf[out_dir, f]] =
                                        [size |-> sz, kind |-> "baseline"]]
            /\ ctask' = [ctask EXCEPT ![f] =
                           [st |-> "done", result |-> <<TRUE, input_files[f], sz>>]]
            /\ UNCHANGED handled
       \/ /\ cfs' = [cfs EXCEPT ![OutputPathOf[out_dir, f]] =
                                      [size |-> input_files[f], kind |-> "copy"]]
          /\ ctask' = [ctask EXCEPT ![f] =
                         [st |-> "done",
                          result |-> <<FALSE, input_files[f], input_files[f]>>]]
          /\ handled' = [handled EXCEPT ![f].filter_failed = TRUE]
    /\ UNCHANGED <<spc, output_file, more_aggressive_output, original_size,
                   baseline_size, compressed_size, more_compressed_size,
                   super_result>>
    /\ UNCHANGED <<cpc, input_dir_exists, input_files, out_dir, compress_workers,
                   pdf_files, large_pdfs, large_left, pdf_path, regular_pdfs,
                   ccollected, total_original_size, total_compressed_size,
                   successfully_compressed, compress_result>>
    /\ UNCHANGED <<mergeVars, downloadVars, mainVars>>

\* lines 450-459: as_completed yields a finished call
CollectCompress(f) ==
    /\ cpc = "pool"
    /\ f \in regular_pdfs \ ccollected
    /\ ctask[f].st = "done"
    /\ ccollected' = ccollected \cup {f}
    /\ total_original_size' = total_original_size + ctask[f].result[2]
    /\ total_compressed_size' = total_compressed_size + ctask[f].result[3]
    /\ successfully_compressed' =
         IF ctask[f].result[1] THEN successfully_compressed + 1
         ELSE successfully_compressed
    /\ UNCHANGED <<cpc, input_dir_exists, input_files, out_dir, compress_workers,
                   pdf_files, large_pdfs, large_left, pdf_path, regular_pdfs,
                   ctask, handled, compress_result>>
    /\ UNCHANGED <<mergeVars, downloadVars, compressVars, mainVars>>

\* lines 461-474
CompressDirReturn ==
    /\ cpc = "pool"
    /\ ccollected = regular_pdfs
    /\ cpc' = "returned"
    /\ compress_result' = "output_dir"
    /\ UNCHANGED <<input_dir_exists, input_files, out_dir, compress_workers,
                   pdf_files, large_pdfs, large_left, pdf_path, regular_pdfs,
                   ctask, ccollected, total_original_size,
                   total_compressed_size, successfully_compressed, handled>>
    /\ UNCHANGED <<mergeVars, downloadVars, compressVars, mainVars>>

NextCompressDir ==
    \/ ListInput
    \/ \E f \in DirNames : SuperCall(f)
    \/ BaselinePass
    \/ AggressivePass
    \/ CommitSmaller
    \/ SuperReturn
    \/ SuperRaise
    \/ SubmitRegular
    \/ \E f \in DirNames : StartCompress(f)
    \/ \E f \in DirNames : CompressPdf(f)
    \/ \E f \in DirNames : CollectCompress(f)
    \/ CompressDirReturn

SpecCompressDir == InitCompressDir /\ [][NextCompressDir]_vars


\* ------------------------------------------ compress directory properties
\* the batch has run to its end
CompressDirReturned == cpc = "returned" /\ compress_result = "output_dir"

\* the file that compress_pdf_directory left in out_dir for the input f
Artifact(f) == cfs[OutputPathOf[out_dir, f]]

\* C12: when the batch returns, every listed input, large or regular, has a
\* file in the output directory, and that file is an unchanged copy of the
\* input whenever the baseline Ghostscript run failed for it.
C12_NoInputLostToFilterFailure ==
    CompressDirReturned =>
        \A f \in pdf_files :
            /\ Artifact(f).kind \notin {"none", "broken"}
            /\ handled[f].filter_failed =>
                 Artifact(f) = [size |-> input_files[f], kind |-> "copy"]

\* C13: an input below 100MB that compress_pdf has finished with has an
\* output no larger than the input, and the size reported for it is below
\* 100MB, whether Ghostscript succeeded (with any output size) or failed.
C13_UnderCeilingInputStaysUnder ==
    cpc \in {"pool", "returned"} =>
        \A f \in regular_pdfs :
            (input_files[f] < CeilingMB /\ ctask[f].st = "done") =>
                /\ Artifact(f).size <= input_files[f]
                /\ ctask[f].result[3] < CeilingMB

\* C19: once compress_pdf_directory has ended, every listed input was
\* processed exactly once: an input over 100MB by one super_compress_pdf call
\* and no pool call, every other input by one pool call and no
\* super_compress_pdf call; and super_compress_pdf calls never overlap a pool
\* call.
C19_EachInputRoutedOnce ==
    /\ (cpc \in {"returned", "raised"} /\ compress_result # "None") =>
         \A f \in pdf_files :
            handled[f] \in
               IF IsLarge(input_files[f])
               THEN [super : {1}, pool : {0}, filter_failed : BOOLEAN]
               ELSE [super : {0}, pool : {1}, filter_failed : BOOLEAN]
    /\ cpc = "super" => regular_pdfs = {}


\* C24: for every listed input over 100MB, whatever the case of its .pdf
\* suffix, the aggressive run of super_compress_pdf is given a path other
\* than the output path, the baseline result is still at the output path
\* when the two sizes are compared, and after the commit step a file is left
\* at the output path.
C24_TempPathApartFromOutput ==
    /\ spc \in {"aggressive", "compare"} =>
         more_aggressive_output # output_file
    /\ spc = "compare" =>
         cfs[output_file] = [size |-> baseline_size, kind |-> "baseline"]
    /\ (spc \in {"returned", "raised"} /\ more_compressed_size # 0) =>
         cfs[output_file] # NoFile

\* ---------------------------------------------------------- the two pools
\* a fetch batch (or a direct download_pdf call) or a compression batch
InitPools == InitDownload \/ InitCompressDir

NextPools == NextDownload \/ NextCompressDir

SpecPools == InitPools /\ [][NextPools]_vars

\* C17: at every moment of a fetch batch and of a regular-compression batch
\* the number of calls executing at once is at most the pool's max_workers.
C17_AtMostMaxWorkersExecute ==
    /\ dpc = "running" => Cardinality(Running) <= max_workers
    /\ cpc = "pool" => Cardinality(RunningCompress) <= compress_workers

\* every worker of the fetch pool is busy while a download still waits
C17_Witness ==
    /\ dpc = "running"
    /\ Cardinality(Running) = max_workers
    /\ \E u \in pdf_urls : task[u].st = "queued"


\* ======================================================= MAIN, COMMAND all ==
\* lines 527-529: download_pdfs_from_url(args.url, max_workers=...) is called
\* without a directory
InitAll ==
    /\ ppc = "fetching"
    /\ merged_dir_state = "none"
    /\ merged_dir_files = {}
    /\ \E P \in SUBSET UrlPool : \E w \in 1..MaxWorkers :
         /\ Cardinality(P) <= MaxUrls
         /\ \E b \in [P -> Behaviours] :
              DownloadStart(P, b, DefaultDownloadDir(TargetUrl), w,
                            DefaultRetries, "fetch_page")

\* line 529: download_pdfs_from_url has returned. Its value, the files and
\* the printed counts (lines 131-132) remain, its other locals are gone
DownloadReturns ==
    /\ ppc = "fetching"
    /\ dpc = "returned"
    /\ ppc' = "fetched"
    /\ dpc' = "idle"
    /\ page' = {}
    /\ behaviour' = <<>>
    /\ max_workers' = 0
    /\ num_retries' = 0
    /\ pdf_urls' = {}
    /\ task' = <<>>
    /\ collected' = {}
    /\ UNCHANGED <<download_dir, fs, successful_downloads, failed_downloads,
                   download_result>>
    /\ UNCHANGED <<merged_dir_state, merged_dir_files>>
    /\ UNCHANGED <<mergeVars, compressVars, dirVars>>

\* what merge_pdfs finds in pdf_dir at line 200: up to MaxPre files that were
\* there before the run and the files the batch has put there
DirContents(pdf_dir) ==
    LET fetched == Cardinality(Listing(pdf_dir))
    IN UNION {[1..n -> FileStates] : n \in fetched..(fetched + MaxPre)}

\* lines 531-533: the value is a directory and merge_pdfs is called on it
\* with args.count
StartMergeStage ==
    /\ ppc = "fetched"
    /\ download_result = "download_dir"
    /\ ppc' = "merging"
    /\ mpc' = "list"
    /\ disk' \in DirContents(download_dir)
    /\ target_groups' \in 1..Min(MaxGroups, MaxInputs)
    /\ UNCHANGED <<all_files, futures, valid_pdfs, num_output_files, buckets,
                   bucket_sizes, next_item, next_bucket, merged_out,
                   successfully_merged, merge_result>>
    /\ download_dir' = <<>>
    /\ fs' = <<>>
    /\ successful_downloads' = 0
    /\ failed_downloads' = 0
    /\ download_result' = "none"
    /\ UNCHANGED <<dpc, page, behaviour, max_workers, num_retries, pdf_urls,
                   task, collected>>
    /\ UNCHANGED <<merged_dir_state, merged_dir_files>>
    /\ UNCHANGED <<compressVars, dirVars>>

\* line 531: the value is None, nothing else runs
HaltAfterDownload ==
    /\ ppc = "fetched"
    /\ download_result = "None"
    /\ ppc' = "done"
    /\ UNCHANGED <<merged_dir_state, merged_dir_files>>
    /\ UNCHANGED <<mergeVars, downloadVars, compressVars, dirVars>>

\* line 533: merge_pdfs has returned. Its value, the files it wrote into
\* Temp_Merged_PDFs (created at line 224) and the printed count (line 258)
\* remain, its other locals are gone
MergeReturns ==
    /\ ppc = "merging"
    /\ mpc = "done"
    /\ ppc' = "merged"
    /\ merged_dir_state' = IF merge_result = "output_dir" THEN "present" ELSE "none"
    /\ merged_dir_files' =
         {MergedName(i) : i \in {j \in 1..Len(merged_out) : merged_out[j].file # "none"}}
    /\ mpc' = "idle"
    /\ disk' = <<>>
    /\ all_files' = {}
    /\ futures' = {}
    /\ valid_pdfs' = <<>>
    /\ target_groups' = 0
    /\ num_output_files' = 0
    /\ buckets' = <<>>
    /\ bucket_sizes' = <<>>
    /\ next_item' = 0
    /\ next_bucket' = 0
    /\ merged_out' = <<>>
    /\ UNCHANGED <<successfully_merged, merge_result>>
    /\ UNCHANGED <<downloadVars, compressVars, dirVars>>

\* the entries of Temp_Merged_PDFs when compress_pdf_directory lists it: the
\* files merge_pdfs wrote and what an earlier run may have left there, each
\* of some size
MergedDirContents ==
    UNION {[merged_dir_files \cup left -> InputSizes] :
             left \in {S \in SUBSET AllNames :
                         Cardinality(merged_dir_files \cup S) <= MaxInputs}}

\* lines 535-537: the value is a directory and compress_pdf_directory is
\* called on it with args.output and args.compress_workers, up to line 406
StartCompressStage ==
    /\ ppc = "merged"
    /\ merge_result = "output_dir"
    /\ ppc' = "compressing"
    /\ \E files \in MergedDirContents : \E d \in OutDirPool :
         /\ Cardinality({f \in DOMAIN files : IsLarge(files[f])}) <= MaxLarge
         /\ input_files' = files
         /\ out_dir' = d
         /\ cfs' = [path \in {OutputPathOf[d, f] : f \in DOMAIN files}
                             \cup {TempPathOf[d, f] : f \in DOMAIN files}
                      |-> NoFile]
    /\ compress_workers' \in 0..MaxWorkers
    /\ cpc' = "list"
    /\ input_dir_exists' = TRUE
    /\ UNCHANGED <<pdf_files, large_pdfs, large_left, pdf_path, regular_pdfs,
                   ctask, ccollected, total_original_size,
                   total_compressed_size, successfully_compressed, handled,
                   compress_result>>
    /\ UNCHANGED <<spc, output_file, more_aggressive_output, original_size,
                   baseline_size, compressed_size, more_compressed_size,
                   super_result>>
    /\ successfully_merged' = 0
    /\ merge_result' = "none"
    /\ UNCHANGED <<mpc, disk, all_files, futures, valid_pdfs, target_groups,
                   num_output_files, buckets, bucket_sizes, next_item,
                   next_bucket, merged_out>>
    /\ UNCHANGED <<merged_dir_state, merged_dir_files>>
    /\ UNCHANGED downloadVars

\* line 535: the value is None, nothing else runs
HaltAfterMerge ==
    /\ ppc = "merged"
    /\ merge_result = "None"
    /\ ppc' = "done"
    /\ UNCHANGED <<merged_dir_state, merged_dir_files>>
    /\ UNCHANGED <<mergeVars, downloadVars, compressVars, dirVars>>

\* lines 539-545: compress_pdf_directory has returned (its value is not
\* looked at); shutil.rmtree removes the directory, or raises and only a
\* warning is printed
CleanUp ==
    /\ ppc = "compressing"
    /\ cpc = "returned"
    /\ ppc' = "done"
    /\ \E removed \in BOOLEAN :
         IF removed
         THEN merged_dir_state' = "removed" /\ merged_dir_files' = {}
         ELSE UNCHANGED <<merged_dir_state, merged_dir_files>>
    /\ UNCHANGED <<mergeVars, downloadVars, compressVars, dirVars>>

\* line 537: an exception that leaves compress_pdf_directory is caught
\* nowhere in main and ends the program before the clean-up
MainRaise ==
    /\ ppc = "compressing"
    /\ cpc = "raised"
    /\ ppc' = "raised"
    /\ UNCHANGED <<merged_dir_state, merged_dir_files>>
    /\ UNCHANGED <<mergeVars, downloadVars, compressVars, dirVars>>

NextAll ==
    \/ NextDownload
    \/ DownloadReturns
    \/ StartMergeStage
    \/ HaltAfterDownload
    \/ NextMerge
    \/ MergeReturns
    \/ StartCompressStage
    \/ HaltAfterMerge
    \/ NextCompressDir
    \/ CleanUp
    \/ MainRaise

SpecAll == InitAll /\ [][NextAll]_vars

\* ------------------------------------------------------- pipeline properties
\* the steps that end the fetch stage and the merge stage
FetchStageEnds == ppc = "fetching" /\ ppc' # "fetching"

MergeStageEnds == ppc = "merging" /\ ppc' # "merging"

\* the steps that start merge_pdfs and compress_pdf_directory
MergeStarts == mpc = "idle" /\ mpc' # "idle"

CompressionStarts == cpc = "idle" /\ cpc' # "idle"

\* every submitted download_pdf call has returned and was yielded
FetchBatchResolved ==
    /\ dpc = "returned"
    /\ \A u \in pdf_urls : task[u].st = "done" /\ u \in collected

\* the consolidation loop has gone through every bucket
EveryBucketConsolidated ==
    /\ mpc = "done"
    /\ merge_result = "output_dir" => next_bucket > Len(buckets)

StagesInSequence ==
    /\ FetchStageEnds => FetchBatchResolved
    /\ MergeStarts => (ppc = "fetched" /\ dpc = "idle")
    /\ MergeStageEnds => EveryBucketConsolidated
    /\ CompressionStarts => (ppc = "merged" /\ mpc = "idle" /\ dpc = "idle")
    /\ ppc # "fetching" => dpc' = "idle"
    /\ ppc \notin {"fetching", "fetched", "merging"} => mpc' = "idle"

\* C14: in the `all` pipeline the fetch stage ends only when every
\* download_pdf call of the batch has produced its outcome and merge_pdfs
\* starts only after that; the merge stage ends only when every bucket has
\* been through the consolidation loop and compress_pdf_directory starts only
\* after that; a stage that is over does not run again.
C14_StagesStrictlySequential == [][StagesInSequence]_vars

\* a compress_pdf call runs on a merged file, after a fetch batch and a merge
C14_Witness ==
    /\ ppc = "compressing"
    /\ cpc = "pool"
    /\ \E f \in regular_pdfs : f \in merged_dir_files /\ ctask[f].st = "running"

ZeroOutputsHalt ==
    /\ MergeStarts => successful_downloads > 0
    /\ CompressionStarts => successfully_merged > 0

\* C15: in the `all` pipeline merge_pdfs is not started when no download of
\* the batch succeeded, and compress_pdf_directory is not started when
\* merge_pdfs wrote no merged file.
C15_ZeroOutputsHaltTheRun == [][ZeroOutputsHalt]_vars


\* the step that ends a run of `all`
RunEnds == ppc \notin {"done", "raised"} /\ ppc' \in {"done", "raised"}

\* the step in which shutil.rmtree removes Temp_Merged_PDFs
MergedDirRemoved == merged_dir_state # "removed" /\ merged_dir_state' = "removed"

\* no super_compress_pdf call and no compress_pdf call is under way or waiting
EveryCompressionUnitFinished ==
    /\ cpc = "returned"
    /\ spc = "idle"
    /\ large_left = {}
    /\ \A f \in regular_pdfs : ctask[f].st = "done"

\* no Ghostscript run, copy or call of a compression unit takes place
NoCompressionUnitActs == UNCHANGED <<spc, ctask, cfs, pdf_path>>

RemovalAfterEveryUnit ==
    /\ MergedDirRemoved => EveryCompressionUnitFinished
    /\ merged_dir_state = "removed" => NoCompressionUnitActs

RemovedWhenRunEnds ==
    (RunEnds /\ merged_dir_state # "none") => merged_dir_state' = "removed"

\* C21: in the `all` pipeline a run in which merge_pdfs created
\* Temp_Merged_PDFs ends with that directory removed; it is removed only when
\* every super_compress_pdf call and every compress_pdf call has finished,
\* and none of them acts once it is removed.
C21_MergedDirRemovedAfterCompression ==
    [][RemovedWhenRunEnds /\ RemovalAfterEveryUnit]_vars

====
